---- MODULE Spec2Model ----
(***************************************************************************)
(* Astatine: a keystroke-driven application launcher (src/src/main.rs).    *)
(*                                                                         *)
(* The model covers the session state (struct Astatine), the catalog       *)
(* loader get_applications, the two message processors                     *)
(* (SearchChangedProcessor, KeyPressedProcessor), the list computed by     *)
(* Astatine::view and execute_app_exec.                                    *)
(*                                                                         *)
(* Strings are sequences of one-character strings, Option<T> is a sequence *)
(* of length at most one (None == <<>>, Some(x) == <<x>>).                 *)
(***************************************************************************)
EXTENDS Integers, Sequences, FiniteSets, TLC

VARIABLES
    entries,        \* get_applications: the Vec of desktop entries
    next_entry,     \* get_applications: position of the for loop in entries
    seen_execs,     \* get_applications: the HashSet of execs
    default_icon,   \* get_applications: Option, the path of the fallback icon
    search,         \* Astatine.search
    applications,   \* Astatine.applications
    focus,          \* Astatine.focus
    prev_focus,     \* Astatine.prev_focus
    status,         \* "loading", "load_panicked" (get_applications),
                    \* "running", "panicked" (Astatine::update)
    lastEvent,      \* the message handled last ("init" before the first)
    lastText,       \* Option: the String of lastEvent when it is SearchChanged
    launched,       \* Option: the exec handed to execute_app_exec by lastEvent
    spawned,        \* Option: <<program, args>> given to Command::spawn
    task,           \* the Task returned by the last process call
    before          \* focus and prev_focus when lastEvent arrived

vars == <<entries, next_entry, seen_execs, default_icon, search, applications,
          focus, prev_focus, status, lastEvent, lastText, launched, spawned,
          task, before>>

----------------------------------------------------------------------------
(* Bounds of the model *)

\* usize is modelled UsizeBits wide
UsizeBits == 3
\* at most MaxEntries desktop entries are found by the loader
MaxEntries == 3

USIZE_MAX == 2^UsizeBits - 1

----------------------------------------------------------------------------
(* Option<T> *)

None == <<>>
Some(x) == <<x>>
IsSome(o) == o # <<>>
Unwrap(o) == o[1]

(* Strings *)

Str_ab == <<"a", "b">>
Str_ba == <<"b", "a">>
Str_Ab == <<"A", "b">>
Str_a == <<"a">>
Str_b == <<"b">>
Str_x == <<"x">>
Str_y == <<"y">>
Str_z_f == <<"z", " ", "f">>
Str_sp == <<" ">>
Str_fi == <<"f", "i">>
Empty == <<>>

UpperCase == <<"A","B","C","D","E","F","G","H","I","J","K","L","M",
               "N","O","P","Q","R","S","T","U","V","W","X","Y","Z">>
LowerCase == <<"a","b","c","d","e","f","g","h","i","j","k","l","m",
               "n","o","p","q","r","s","t","u","v","w","x","y","z">>

IsUpper(c) == \E i \in 1..Len(UpperCase) : UpperCase[i] = c
ToLower(c) ==
    IF IsUpper(c)
    THEN LowerCase[CHOOSE i \in 1..Len(UpperCase) : UpperCase[i] = c]
    ELSE c
IsWhitespace(c) == c = " "

----------------------------------------------------------------------------
(* SkimMatcherV2::default().fuzzy_match(choice, pattern): a score for how   *)
(* well the characters of pattern appear, in order, in choice; None when    *)
(* pattern is not a subsequence of choice.  Case is "smart": a pattern with *)
(* an upper-case character is matched case-sensitively, any other pattern   *)
(* ignoring case.                                                           *)

ScoreMatch == 16
GapStart == -3
GapExtension == -1
BonusFirstCharMultiplier == 2
BonusHead == ScoreMatch \div 2
BonusBreak == (ScoreMatch \div 2) + GapExtension
BonusCamel == (ScoreMatch \div 2) + 2 * GapExtension
BonusConsecutive == -(GapStart + GapExtension)
PenaltyCaseMismatch == GapExtension * 2

CaseSensitive(pattern) == \E i \in 1..Len(pattern) : IsUpper(pattern[i])

CharMatches(c, p, sensitive) ==
    IF sensitive THEN c = p ELSE ToLower(c) = ToLower(p)

\* the strictly increasing placements of pattern's characters in choice
Embeddings(choice, pattern) ==
    {f \in [1..Len(pattern) -> 1..Len(choice)] :
        /\ \A i \in 1..Len(pattern) :
               CharMatches(choice[f[i]], pattern[i], CaseSensitive(pattern))
        /\ \A i \in 1..Len(pattern) : \A j \in 1..Len(pattern) :
               i < j => f[i] < f[j]}

PositionBonus(choice, pos) ==
    IF pos = 1 THEN BonusHead
    ELSE IF IsWhitespace(choice[pos - 1]) THEN BonusBreak
    ELSE IF IsUpper(choice[pos]) /\ ~IsUpper(choice[pos - 1]) THEN BonusCamel
    ELSE 0

CharScore(choice, pattern, f, i) ==
    ScoreMatch
    + (IF choice[f[i]] = pattern[i] THEN 0 ELSE PenaltyCaseMismatch)
    + (IF i = 1
       THEN PositionBonus(choice, f[i]) * BonusFirstCharMultiplier
       ELSE PositionBonus(choice, f[i])
            + (IF f[i] = f[i - 1] + 1
               THEN BonusConsecutive
               ELSE GapStart + GapExtension * (f[i] - f[i - 1] - 2)))

RECURSIVE EmbeddingScore(_, _, _, _)
EmbeddingScore(choice, pattern, f, n) ==
    IF n = 0 THEN 0
    ELSE EmbeddingScore(choice, pattern, f, n - 1)
         + CharScore(choice, pattern, f, n)

Max(S) == CHOOSE s \in S : \A t \in S : t <= s

fuzzy_match(choice, pattern) ==
    LET embs == Embeddings(choice, pattern)
    IN  IF embs = {} THEN None
        ELSE Some(Max({EmbeddingScore(choice, pattern, f, Len(pattern)) :
                          f \in embs}))

----------------------------------------------------------------------------
(* The host environment of the loader *)

Path_vec == <<"v", ".", "s", "v", "g">>
Path_ras == <<"r", ".", "p", "n", "g">>
Path_default == <<"d", ".", "s", "v", "g">>
DotSvg == <<".", "s", "v", "g">>

\* freedesktop_icons::lookup(name).with_size(32).find()
lookup(icon_name) ==
    IF icon_name = "vec" THEN Some(Path_vec)
    ELSE IF icon_name = "ras" THEN Some(Path_ras)
    ELSE None

ends_with(str, suffix) ==
    /\ Len(str) >= Len(suffix)
    /\ SubSeq(str, Len(str) - Len(suffix) + 1, Len(str)) = suffix

\* a desktop entry: name(), exec() and icon() are Options
DesktopEntry(n, e, i) == [name |-> n, exec |-> e, icon |-> i]

EntryPool ==
    { DesktopEntry(Some(Str_ab), Some(Str_x), Some("vec")),
      DesktopEntry(Some(Str_ba), Some(Str_y), Some("ras")),
      DesktopEntry(Some(Str_ab), Some(Str_z_f), None),
      DesktopEntry(Some(Str_Ab), Some(Str_x), Some("gone")),
      DesktopEntry(Some(Str_b), Some(Str_sp), Some("vec")),
      DesktopEntry(Some(Empty), Some(Str_y), None),
      DesktopEntry(Some(Str_ba), None, Some("ras")),
      DesktopEntry(None, Some(Str_y), None) }

EntryLists == UNION {[1..n -> EntryPool] : n \in 0..MaxEntries}

----------------------------------------------------------------------------
(* struct Application, enum Icon *)

Application(n, e, i) == [name |-> n, exec |-> e, icon |-> i]
Svg(path) == [kind |-> "Svg", path |-> path]
Image(path) == [kind |-> "Image", path |-> path]

unwrap_or(o, d) == IF IsSome(o) THEN Unwrap(o) ELSE d

\* the icon of one entry (the if/else of the loop body)
EntryIcon(icon_name, fallback) ==
    IF icon_name # ""
    THEN LET path == unwrap_or(lookup(icon_name), Empty)
         IN  IF path # Empty
             THEN IF ends_with(path, DotSvg) THEN Svg(path) ELSE Image(path)
             ELSE Svg(fallback)
    ELSE Svg(fallback)

----------------------------------------------------------------------------
(* Vec / Iterator helpers used by the ranking *)

\* iter().filter_map(|app| fuzzy_match(&app.name, search).map(|s| (s, app)))
RECURSIVE filter_map_score(_, _)
filter_map_score(apps, pattern) ==
    IF apps = <<>> THEN <<>>
    ELSE LET app == Head(apps)
             score == fuzzy_match(app.name, pattern)
             rest == filter_map_score(Tail(apps), pattern)
         IN  IF IsSome(score) THEN <<<<Unwrap(score), app>>>> \o rest
             ELSE rest

\* an unstable sort: x goes in front of the elements of equal score
SortPositionBeforeTies(sorted, x) ==
    Cardinality({i \in 1..Len(sorted) : sorted[i][1] > x[1]})

\* the comparator the other way round, a.0.cmp(&b.0): ascending scores
SortPositionAscending(sorted, x) ==
    Cardinality({i \in 1..Len(sorted) : sorted[i][1] <= x[1]})

\* where the stable sort_by(|a, b| b.0.cmp(&a.0)) puts x in an already
\* sorted prefix: behind every element that does not compare Greater,
\* that is behind every element whose score is at least the score of x
SortPosition(sorted, x) ==
    Cardinality({i \in 1..Len(sorted) : sorted[i][1] >= x[1]})

InsertSorted(sorted, x) ==
    LET k == SortPosition(sorted, x)
    IN  SubSeq(sorted, 1, k) \o <<x>> \o SubSeq(sorted, k + 1, Len(sorted))

\* matched_apps.sort_by(|a, b| b.0.cmp(&a.0)): Vec::sort_by is stable
RECURSIVE sort_by(_)
sort_by(matched) ==
    IF matched = <<>> THEN <<>>
    ELSE InsertSorted(sort_by(SubSeq(matched, 1, Len(matched) - 1)),
                      matched[Len(matched)])

\* into_iter().map(|(_, app)| app).collect()
map_app(matched) == [i \in 1..Len(matched) |-> matched[i][2]]

\* an "<enter>" arm that resolves against an empty list while the query
\* is empty
enter_filtered_applications_empty(apps, pattern) ==
    IF pattern = Empty THEN <<>>
    ELSE map_app(sort_by(filter_map_score(apps, pattern)))

\* filtered_applications of the "<enter>" arm of KeyPressedProcessor
enter_filtered_applications(apps, pattern) ==
    IF pattern = Empty THEN apps
    ELSE map_app(sort_by(filter_map_score(apps, pattern)))

\* a view that lists the matches in catalog order
view_filtered_applications_unsorted(apps, pattern) ==
    IF pattern = Empty THEN apps
    ELSE map_app(filter_map_score(apps, pattern))

\* filtered_applications of Astatine::view
view_filtered_applications(apps, pattern) ==
    IF pattern = Empty THEN apps
    ELSE map_app(sort_by(filter_map_score(apps, pattern)))

\* the test without the + 1: i == focus
FindMatchesZeroBased(i, f) == i = f

\* the 0-based index i that passes the test of find(|(i, _)| i + 1 == focus)
FindMatches(i, f) == i + 1 = f

\* iter().enumerate().find(|(i, _)| i + 1 == focus): Option<(i, app)>
find_focus(list, f) ==
    LET hits == {i \in 0..(Len(list) - 1) : FindMatches(i, f)}
    IN  IF hits = {} THEN None
        ELSE LET i == CHOOSE h \in hits : \A g \in hits : h <= g
             IN  Some(<<i, list[i + 1]>>)

\* the rows Astatine::view draws highlighted (i + 1 == self.focus)
view_highlighted(apps, pattern, f) ==
    LET list == view_filtered_applications(apps, pattern)
    IN  {i \in 0..(Len(list) - 1) : i + 1 = f}

\* exec.split_whitespace().collect()
RECURSIVE split_whitespace(_, _, _)
split_whitespace(str, i, cur) ==
    IF i > Len(str) THEN (IF cur = <<>> THEN <<>> ELSE <<cur>>)
    ELSE IF IsWhitespace(str[i])
    THEN (IF cur = <<>> THEN <<>> ELSE <<cur>>)
         \o split_whitespace(str, i + 1, <<>>)
    ELSE split_whitespace(str, i + 1, Append(cur, str[i]))

\* execute_app_exec(exec): what is handed to Command::spawn, if anything
execute_app_exec(exec) ==
    LET parts == split_whitespace(exec, 1, <<>>)
    IN  IF parts # <<>>
        THEN Some([program |-> Head(parts), args |-> Tail(parts)])
        ELSE None

----------------------------------------------------------------------------
(* The session: struct Astatine and its message processors *)

\* + and - in place of the saturating operations
unchecked_add(x, y) == x + y
wrapping_sub(x, y) == (x - y) % (USIZE_MAX + 1)

saturating_add(x, y) == IF x + y > USIZE_MAX THEN USIZE_MAX ELSE x + y
saturating_sub(x, y) == IF x - y < 0 THEN 0 ELSE x - y

\* the strings a SearchChanged message carries
Queries == {Empty, Str_a, Str_ab, Str_fi}

\* the strings a KeyPressed message carries ("x": any unbound key)
Keys == {"j", "k", "i", "/", "<enter>", "x"}

\* the start of get_applications, called by Astatine::new(): the entries
\* are collected; search, focus and prev_focus hold what Astatine::new()
\* gives them when get_applications returns
Init ==
    /\ entries \in EntryLists
    /\ next_entry = 1
    /\ seen_execs = {}
    /\ default_icon = None
    /\ applications = <<>>
    /\ status = "loading"
    /\ search = Empty
    /\ focus = 1
    /\ prev_focus = None
    /\ lastEvent = "init"
    /\ lastText = None
    /\ launched = None
    /\ spawned = None
    /\ task = "none"
    /\ before = [focus |-> 1, prev_focus |-> None]

Session == <<search, focus, prev_focus, lastEvent, lastText, launched,
             spawned, task, before>>

\* icon_loader.load_icon("application-x-executable").unwrap(): the theme
\* of the host has the icon or it has not
LoadDefaultIcon ==
    /\ status = "loading"
    /\ default_icon = None
    /\ \E found \in BOOLEAN :
           IF found
           THEN default_icon' = Some(Path_default) /\ status' = status
           ELSE default_icon' = None /\ status' = "load_panicked"
    /\ UNCHANGED <<entries, next_entry, seen_execs, applications, Session>>

\* the test of line 276 without the seen_execs part
skip_entry_no_dedup(name, exec, seen) == name = Empty \/ exec = Empty

\* name.is_empty() || exec.is_empty() || !seen_execs.insert(exec.clone())
skip_entry(name, exec, seen) ==
    name = Empty \/ exec = Empty \/ exec \in seen

\* one turn of "for entry in entries"
LoadEntry ==
    /\ status = "loading"
    /\ IsSome(default_icon)
    /\ next_entry <= Len(entries)
    /\ LET entry == entries[next_entry]
       IN  IF ~IsSome(entry.name)
           THEN /\ status' = "load_panicked"
                /\ UNCHANGED <<next_entry, seen_execs, applications>>
           ELSE LET name == Unwrap(entry.name)
                    exec == unwrap_or(entry.exec, Empty)
                    icon_name == unwrap_or(entry.icon, "")
                IN  /\ status' = status
                    /\ next_entry' = next_entry + 1
                    /\ IF skip_entry(name, exec, seen_execs)
                       THEN UNCHANGED <<seen_execs, applications>>
                       ELSE /\ seen_execs' = seen_execs \cup {exec}
                            /\ applications' =
                                 Append(applications,
                                        Application(name, exec,
                                            EntryIcon(icon_name,
                                                Unwrap(default_icon))))
    /\ UNCHANGED <<entries, default_icon, Session>>

\* get_applications returns (its locals are dropped) and Astatine::new()
\* builds the session
LoadReturn ==
    /\ status = "loading"
    /\ IsSome(default_icon)
    /\ next_entry > Len(entries)
    /\ status' = "running"
    /\ entries' = <<>>
    /\ next_entry' = 1
    /\ seen_execs' = {}
    /\ default_icon' = None
    /\ search' = Empty
    /\ focus' = 1
    /\ prev_focus' = None
    /\ UNCHANGED <<applications, lastEvent, lastText, launched, spawned, task,
                   before>>

\* the session as the handler of the next message finds it
Snapshot == [focus |-> focus, prev_focus |-> prev_focus]

Loader == <<entries, next_entry, seen_execs, default_icon>>

\* the tail of KeyPressedProcessor::process
FocusTask(f) == IF f = 0 THEN "focus_search" ELSE "none"

\* a SearchChangedProcessor::process that leaves focus and prev_focus alone
SearchChangedKeepsFocus(param) ==
    /\ status = "running"
    /\ search' = param
    /\ task' = "none"
    /\ lastEvent' = "text"
    /\ lastText' = Some(param)
    /\ before' = Snapshot
    /\ launched' = None
    /\ spawned' = None
    /\ UNCHANGED <<Loader, applications, status, focus, prev_focus>>

\* SearchChangedProcessor::process
SearchChanged(param) ==
    /\ status = "running"
    /\ search' = param
    /\ prev_focus' = None
    /\ focus' = 0
    /\ task' = "none"
    /\ lastEvent' = "text"
    /\ lastText' = Some(param)
    /\ before' = Snapshot
    /\ launched' = None
    /\ spawned' = None
    /\ UNCHANGED <<Loader, applications, status>>

\* "j" and "k" arms that ignore prev_focus
UnrestoredFocus == focus

\* the focus the "j" and "k" arms start from
RestoredFocus == IF IsSome(prev_focus) THEN Unwrap(prev_focus) ELSE focus

\* "j" arm
KeyJ ==
    /\ status = "running"
    /\ focus' = saturating_add(RestoredFocus, 1)
    /\ prev_focus' = None
    /\ task' = FocusTask(focus')
    /\ lastEvent' = "j"
    /\ lastText' = None
    /\ before' = Snapshot
    /\ launched' = None
    /\ spawned' = None
    /\ UNCHANGED <<Loader, applications, status, search>>

\* "k" arm
KeyK ==
    /\ status = "running"
    /\ focus' = saturating_sub(RestoredFocus, 1)
    /\ prev_focus' = None
    /\ task' = FocusTask(focus')
    /\ lastEvent' = "k"
    /\ lastText' = None
    /\ before' = Snapshot
    /\ launched' = None
    /\ spawned' = None
    /\ UNCHANGED <<Loader, applications, status, search>>

\* an "i" arm that saves the focus and leaves it where it is
KeyIKeepsFocus ==
    /\ status = "running"
    /\ prev_focus' = Some(focus)
    /\ task' = FocusTask(focus)
    /\ lastEvent' = "i"
    /\ lastText' = None
    /\ before' = Snapshot
    /\ launched' = None
    /\ spawned' = None
    /\ UNCHANGED <<Loader, applications, status, search, focus>>

\* an "i" arm that keeps a focus saved before
KeyIKeepsSaved ==
    /\ status = "running"
    /\ prev_focus' = IF IsSome(prev_focus) THEN prev_focus ELSE Some(focus)
    /\ focus' = 0
    /\ task' = FocusTask(focus')
    /\ lastEvent' = "i"
    /\ lastText' = None
    /\ before' = Snapshot
    /\ launched' = None
    /\ spawned' = None
    /\ UNCHANGED <<Loader, applications, status, search>>

\* "i" arm
KeyI ==
    /\ status = "running"
    /\ prev_focus' = Some(focus)
    /\ focus' = 0
    /\ task' = FocusTask(focus')
    /\ lastEvent' = "i"
    /\ lastText' = None
    /\ before' = Snapshot
    /\ launched' = None
    /\ spawned' = None
    /\ UNCHANGED <<Loader, applications, status, search>>

\* a "/" arm that focuses the query field without saving the focus
KeySlashNoSave ==
    /\ status = "running"
    /\ focus' = 0
    /\ task' = FocusTask(focus')
    /\ lastEvent' = "/"
    /\ lastText' = None
    /\ before' = Snapshot
    /\ launched' = None
    /\ spawned' = None
    /\ UNCHANGED <<Loader, applications, status, search, prev_focus>>

\* "/" arm
KeySlash ==
    /\ status = "running"
    /\ prev_focus' = Some(focus)
    /\ focus' = 0
    /\ task' = FocusTask(focus')
    /\ lastEvent' = "/"
    /\ lastText' = None
    /\ before' = Snapshot
    /\ launched' = None
    /\ spawned' = None
    /\ UNCHANGED <<Loader, applications, status, search>>

\* "<enter>" arm: Option::unwrap panics when find returns None
KeyEnter ==
    /\ status = "running"
    /\ LET filtered == enter_filtered_applications(applications, search)
           found == find_focus(filtered, focus)
       IN  IF IsSome(found)
           THEN /\ launched' = Some(Unwrap(found)[2].exec)
                /\ spawned' = execute_app_exec(Unwrap(found)[2].exec)
                /\ task' = FocusTask(focus)
                /\ status' = status
           ELSE /\ launched' = None
                /\ spawned' = None
                /\ task' = "none"
                /\ status' = "panicked"
    /\ lastEvent' = "<enter>"
    /\ lastText' = None
    /\ before' = Snapshot
    /\ UNCHANGED <<Loader, applications, search, focus, prev_focus>>

\* a "_" arm that clears the search
KeyOtherClears(param) ==
    /\ status = "running"
    /\ param \notin {"j", "k", "i", "/", "<enter>"}
    /\ search' = Empty
    /\ task' = FocusTask(focus)
    /\ lastEvent' = param
    /\ lastText' = None
    /\ before' = Snapshot
    /\ launched' = None
    /\ spawned' = None
    /\ UNCHANGED <<Loader, applications, status, focus, prev_focus>>

\* "_" arm
KeyOther(param) ==
    /\ status = "running"
    /\ param \notin {"j", "k", "i", "/", "<enter>"}
    /\ task' = FocusTask(focus)
    /\ lastEvent' = param
    /\ lastText' = None
    /\ before' = Snapshot
    /\ launched' = None
    /\ spawned' = None
    /\ UNCHANGED <<Loader, applications, status, search, focus, prev_focus>>

\* KeyPressedProcessor::process
KeyPressed(param) ==
    \/ param = "j" /\ KeyJ
    \/ param = "k" /\ KeyK
    \/ param = "i" /\ KeyI
    \/ param = "/" /\ KeySlash
    \/ param = "<enter>" /\ KeyEnter
    \/ KeyOther(param)

\* get_applications, then Astatine::update on every message
Next ==
    \/ LoadDefaultIcon
    \/ LoadEntry
    \/ LoadReturn
    \/ \E param \in Queries : SearchChanged(param)
    \/ \E param \in Keys : KeyPressed(param)

Spec == Init /\ [][Next]_vars

TypeOK ==
    /\ focus \in 0..USIZE_MAX
    /\ prev_focus \in {None} \cup {Some(f) : f \in 0..USIZE_MAX}
    /\ search \in Queries
    /\ status \in {"loading", "load_panicked", "running", "panicked"}
    /\ next_entry \in 1..(Len(entries) + 1)

----------------------------------------------------------------------------
(* Properties *)

\* the list the "<enter>" arm resolves the focus against
EnterView == enter_filtered_applications(applications, search)
\* the list Astatine::view presents
ShownView == view_filtered_applications(applications, search)

Min(a, b) == IF a <= b THEN a ELSE b
CatalogIndex(app) ==
    CHOOSE k \in 1..Len(applications) : applications[k] = app
Matching(pattern) ==
    {k \in 1..Len(applications) :
        IsSome(fuzzy_match(applications[k].name, pattern))}

\* C1: a Confirm with 1 <= cursor <= len(view) hands exactly the exec of
\* the candidate at 1-indexed position cursor of the view of the live
\* query to the launcher, and the session goes on.
C1_ConfirmLaunchesFocused ==
    [][(lastEvent' = "<enter>" /\ 1 <= focus /\ focus <= Len(EnterView))
       => /\ launched' = Some(EnterView[focus].exec)
          /\ status' = "running"]_vars

\* a Confirm on the second row of a ranked view that differs from the catalog
C1_Witness ==
    /\ lastEvent = "<enter>"
    /\ status = "running"
    /\ search # Empty
    /\ before.focus = 2
    /\ Len(EnterView) >= 2
    /\ EnterView # applications
    /\ launched = Some(EnterView[2].exec)

\* C2: a Confirm with cursor > len(view) (an empty view included) launches
\* nothing, leaves query, cursor and saved cursor unchanged and does not
\* panic.
C2_ConfirmOutOfRangeIsSafe ==
    [][(lastEvent' = "<enter>" /\ focus > Len(EnterView))
       => /\ status' = "running"
          /\ launched' = None
          /\ spawned' = None
          /\ search' = search
          /\ focus' = focus
          /\ prev_focus' = prev_focus]_vars

\* C3: a Confirm with cursor = 0 (the query field has focus) is a no-op:
\* nothing is launched, the state is unchanged, the handler does not abort.
C3_ConfirmOnQueryFieldIsNoOp ==
    [][(lastEvent' = "<enter>" /\ focus = 0)
       => /\ status' = "running"
          /\ launched' = None
          /\ spawned' = None
          /\ search' = search
          /\ focus' = focus
          /\ prev_focus' = prev_focus]_vars

\* C4: from the initial state and for any catalog, no sequence of events
\* makes the handling of an event terminate the process.
C4_EventHandlingNeverPanics == status # "panicked"

\* C5: for a non-empty query, two matching candidates with equal score
\* appear in the ranked view in their catalog order.
C5_RankingIsStable ==
    search # Empty =>
        \A v \in {EnterView, ShownView} :
            \A i \in 1..Len(v) : \A j \in 1..Len(v) :
                (i < j /\ fuzzy_match(v[i].name, search)
                            = fuzzy_match(v[j].name, search))
                => CatalogIndex(v[i]) < CatalogIndex(v[j])

\* a ranked view of three, reordered by the sort, with a tie in it
C5_Witness ==
    /\ search # Empty
    /\ Len(EnterView) = 3
    /\ EnterView # applications
    /\ \E i \in 1..3 : \E j \in 1..3 :
           /\ i < j
           /\ fuzzy_match(EnterView[i].name, search)
                = fuzzy_match(EnterView[j].name, search)

\* C6: the ranked view for the empty query is the catalog itself: same
\* candidates, same order, none excluded.
C6_EmptyQueryIdentity ==
    search = Empty => (EnterView = applications /\ ShownView = applications)

\* a Text-changed with the empty string arrived while a row beyond the
\* first was focused, over a catalog of at least two
C6_Witness ==
    /\ status = "running"
    /\ search = Empty
    /\ lastEvent = "text"
    /\ before.focus > 1
    /\ Len(applications) >= 2
    /\ EnterView = applications

\* C7: for a non-empty query the ranked view holds exactly the candidates
\* whose name has a score, each once, in non-increasing order of score.
C7_RankedViewIsMatchesByScore ==
    search # Empty =>
        \A v \in {EnterView, ShownView} :
            /\ {v[i] : i \in 1..Len(v)}
                 = {applications[k] : k \in Matching(search)}
            /\ Len(v) = Cardinality(Matching(search))
            /\ \A i \in 1..Len(v) : \A j \in 1..Len(v) :
                   i < j => Unwrap(fuzzy_match(v[i].name, search))
                              >= Unwrap(fuzzy_match(v[j].name, search))

\* a candidate is excluded and the remaining ones change their order
C7_Witness ==
    /\ search # Empty
    /\ Len(EnterView) >= 2
    /\ Len(EnterView) < Len(applications)
    /\ \E i \in 1..Len(EnterView) : \E j \in 1..Len(EnterView) :
           /\ i < j
           /\ CatalogIndex(EnterView[i]) > CatalogIndex(EnterView[j])
           /\ Unwrap(fuzzy_match(EnterView[i].name, search))
                > Unwrap(fuzzy_match(EnterView[j].name, search))

\* C8 as stated: in every reachable state of the session the cursor is 0
\* or a position of the ranked view of the current catalog and query.
C8_CursorWithinView ==
    status = "running" =>
        (focus = 0 \/ (1 <= focus /\ focus <= Len(ShownView)))

\* C8 as amended: the cursor is 0 or a position up to the largest usize;
\* the length of the ranked view does not bound it.
C8_CursorWithinUsize == status = "running" => focus \in 0..USIZE_MAX

\* the cursor is at 5 over a ranked view of two
C8_Witness ==
    /\ status = "running"
    /\ Len(ShownView) = 2
    /\ focus = 5

\* C9 as stated: a Move-previous at cursor 0 leaves the cursor at 0 and a
\* Move-next at the largest usize leaves it there.
C9_SaturatesFromCursor ==
    [][/\ (lastEvent' = "k" /\ focus = 0) => focus' = 0
       /\ (lastEvent' = "j" /\ focus = USIZE_MAX) => focus' = USIZE_MAX]_vars

\* C9 as amended: a Move-previous at cursor 0 with no saved cursor leaves
\* the cursor at 0 (with a saved cursor s it gives max(s - 1, 0)), a
\* Move-next at the largest usize leaves it there, and neither wraps.
C9_Saturates ==
    [][/\ (lastEvent' = "k" /\ focus = 0 /\ prev_focus = None)
            => (focus' = 0 /\ prev_focus' = None)
       /\ (lastEvent' = "k" /\ IsSome(prev_focus))
            => (/\ focus' = IF Unwrap(prev_focus) = 0 THEN 0
                            ELSE Unwrap(prev_focus) - 1
                /\ prev_focus' = None)
       /\ (lastEvent' = "j" /\ focus = USIZE_MAX)
            => (focus' = USIZE_MAX /\ prev_focus' = None)
       /\ (lastEvent' = "j" /\ prev_focus = None) => focus' >= focus
       /\ (lastEvent' = "k" /\ prev_focus = None) => focus' <= focus]_vars

\* a Move-next arrived at the largest usize and left the cursor there
C9_Witness ==
    /\ lastEvent = "j"
    /\ before.focus = USIZE_MAX
    /\ focus = USIZE_MAX

\* C10: with cursor c and no saved cursor an Enter-browse saves c and puts
\* the cursor at 0; a Move-next right after it gives cursor c + 1
\* (saturating) and no saved cursor; with no saved cursor a Move-next gives
\* cursor + 1 (saturating).
C10_ModeToggleRoundTrip ==
    [][/\ (lastEvent' \in {"i", "/"} /\ prev_focus = None)
            => (prev_focus' = Some(focus) /\ focus' = 0)
       /\ (lastEvent \in {"i", "/"} /\ before.prev_focus = None
             /\ lastEvent' = "j")
            => (/\ focus' = Min(before.focus + 1, USIZE_MAX)
                /\ prev_focus' = None)
       /\ (lastEvent' = "j" /\ prev_focus = None)
            => (/\ focus' = Min(focus + 1, USIZE_MAX)
                /\ prev_focus' = None)]_vars

\* the cursor went 3, Enter-browse, Move-next, 4
C10_Witness ==
    /\ lastEvent = "j"
    /\ before.focus = 0
    /\ before.prev_focus = Some(3)
    /\ focus = 4
    /\ prev_focus = None

\* C11: a Move-previous with saved cursor s gives cursor max(s - 1, 0), one
\* without a saved cursor gives max(cursor - 1, 0); both leave no saved
\* cursor and the query as it was.
C11_MovePrevious ==
    [][lastEvent' = "k"
       => /\ IsSome(prev_focus)
               => focus' = (IF Unwrap(prev_focus) >= 1
                            THEN Unwrap(prev_focus) - 1 ELSE 0)
          /\ prev_focus = None
               => focus' = (IF focus >= 1 THEN focus - 1 ELSE 0)
          /\ prev_focus' = None
          /\ search' = search]_vars

\* a Move-previous restored the saved cursor 3 and went to 2
C11_Witness ==
    /\ lastEvent = "k"
    /\ before.focus = 0
    /\ before.prev_focus = Some(3)
    /\ focus = 2
    /\ prev_focus = None

\* C12: a Text-changed carrying s gives query s, no saved cursor and cursor
\* 0, whatever cursor and saved cursor were, and leaves the catalog.
C12_TextChanged ==
    [][lastEvent' = "text"
       => /\ lastText' # None
          /\ search' = Unwrap(lastText')
          /\ prev_focus' = None
          /\ focus' = 0
          /\ applications' = applications]_vars

\* a Text-changed with "ab" arrived while the cursor 2 was saved
C12_Witness ==
    /\ lastEvent = "text"
    /\ lastText = Some(Str_ab)
    /\ before.prev_focus = Some(2)
    /\ search = Str_ab
    /\ focus = 0
    /\ prev_focus = None

\* C13: i and / make the same transition from every state: the saved cursor
\* becomes the cursor, the cursor 0, the query stays; nothing else of the
\* result depends on which of the two keys it was.
C13_BrowseKeysAlike ==
    [][lastEvent' \in {"i", "/"}
       => /\ prev_focus' = Some(focus)
          /\ focus' = 0
          /\ search' = search
          /\ applications' = applications
          /\ status' = status
          /\ task' = "focus_search"
          /\ launched' = None
          /\ spawned' = None]_vars

\* a / saved the cursor 2
C13_Witness ==
    /\ lastEvent = "/"
    /\ before.focus = 2
    /\ before.prev_focus = None
    /\ prev_focus = Some(2)
    /\ focus = 0

\* C14: a key other than j, k, i, / and Enter leaves query, cursor, saved
\* cursor and catalog unchanged.
C14_OtherKeyChangesNothing ==
    [][lastEvent' \notin {"init", "text", "j", "k", "i", "/", "<enter>"}
       => /\ search' = search
          /\ focus' = focus
          /\ prev_focus' = prev_focus
          /\ applications' = applications]_vars

\* an unbound key arrived with a query typed and the second row focused
C14_Witness ==
    /\ lastEvent = "x"
    /\ search = Str_a
    /\ before.focus = 2
    /\ focus = 2
    /\ prev_focus = None

\* the entries the for loop of get_applications has been through
Consumed == 1..(next_entry - 1)
ExecOf(i) == unwrap_or(entries[i].exec, Empty)
NameOf(i) == unwrap_or(entries[i].name, Empty)
Least(S) == CHOOSE x \in S : \A y \in S : x <= y
InLoader == status \in {"loading", "load_panicked"}

CatalogIsUnique ==
    \A k \in 1..Len(applications) : \A l \in 1..Len(applications) :
        applications[k].exec = applications[l].exec => k = l
CatalogIsNamed ==
    \A k \in 1..Len(applications) :
        applications[k].name # Empty /\ applications[k].exec # Empty

\* C15 as stated: the catalog never holds two candidates with the same
\* launch command nor one with an empty name or command, and the candidate
\* kept for a command is the first entry, in input order, with that command.
C15_DedupKeepsFirstEntry ==
    /\ CatalogIsUnique
    /\ CatalogIsNamed
    /\ InLoader =>
         \A k \in 1..Len(applications) :
            LET first == Least({i \in Consumed :
                                  ExecOf(i) = applications[k].exec})
            IN  NameOf(first) = applications[k].name

\* C15 as amended: the same, the candidate kept for a command being the
\* first entry with a non-empty name and that command.
C15_DedupKeepsFirstNamedEntry ==
    /\ CatalogIsUnique
    /\ CatalogIsNamed
    /\ InLoader =>
         \A k \in 1..Len(applications) :
            LET first == Least({i \in Consumed :
                                  /\ ExecOf(i) = applications[k].exec
                                  /\ NameOf(i) # Empty})
            IN  NameOf(first) = applications[k].name

\* three entries with one command went through the loop, the first of them
\* with an empty name, and the catalog has one candidate
C15_Witness ==
    /\ status = "loading"
    /\ next_entry = 4
    /\ Len(entries) = 3
    /\ NameOf(1) = Empty
    /\ ExecOf(1) = ExecOf(2)
    /\ ExecOf(2) = ExecOf(3)
    /\ NameOf(2) # Empty
    /\ NameOf(3) # Empty
    /\ Len(applications) = 1

\* C16: an entry that fails to parse or resolve never aborts the loader:
\* once the fallback icon is loaded, no entry makes get_applications panic.
C16_BadEntryIsNotFatal == ~(status = "load_panicked" /\ IsSome(default_icon))

\* the catalog of the end-to-end scenario
Str_Firefox == <<"F", "i", "r", "e", "f", "o", "x">>
Str_Files == <<"F", "i", "l", "e", "s">>
Str_Terminal == <<"T", "e", "r", "m", "i", "n", "a", "l">>
Str_firefox == <<"f", "i", "r", "e", "f", "o", "x">>
Str_nautilus == <<"n", "a", "u", "t", "i", "l", "u", "s">>
Str_alacritty == <<"a", "l", "a", "c", "r", "i", "t", "t", "y">>

ScenarioEntries ==
    << DesktopEntry(Some(Str_Firefox), Some(Str_firefox), None),
       DesktopEntry(Some(Str_Files), Some(Str_nautilus), None),
       DesktopEntry(Some(Str_Terminal), Some(Str_alacritty), None) >>

\* the loader finds the three entries of the scenario
InitScenario ==
    /\ entries = ScenarioEntries
    /\ next_entry = 1
    /\ seen_execs = {}
    /\ default_icon = None
    /\ applications = <<>>
    /\ status = "loading"
    /\ search = Empty
    /\ focus = 1
    /\ prev_focus = None
    /\ lastEvent = "init"
    /\ lastText = None
    /\ launched = None
    /\ spawned = None
    /\ task = "none"
    /\ before = [focus |-> 1, prev_focus |-> None]

SpecScenario == InitScenario /\ [][Next]_vars

ScenarioLoaded ==
    /\ status = "running"
    /\ [k \in 1..Len(applications) |-> applications[k].name]
         = <<Str_Firefox, Str_Files, Str_Terminal>>

\* C17: with the catalog Firefox, Files, Terminal and the query "fi" the
\* ranked view holds Firefox and Files and not Terminal; a Move-next at
\* cursor 1 gives cursor 2, and a Confirm there launches Files, spawned as
\* the program nautilus without arguments.
C17_EndToEnd ==
    [][/\ (ScenarioLoaded /\ search = Str_fi)
            => /\ Len(EnterView) = 2
               /\ {EnterView[k].name : k \in 1..2} = {Str_Firefox, Str_Files}
               /\ ShownView = EnterView
       /\ (ScenarioLoaded /\ search = Str_fi /\ focus = 1
             /\ prev_focus = None /\ lastEvent' = "j")
            => focus' = 2
       /\ (ScenarioLoaded /\ search = Str_fi /\ focus = 2
             /\ lastEvent' = "<enter>")
            => /\ launched' = Some(Str_nautilus)
               /\ spawned' = Some([program |-> Str_nautilus, args |-> <<>>])
               /\ status' = "running"]_vars

\* the Confirm of the scenario: the cursor came from 1 to 2 over the view
\* of "fi" and nautilus was spawned
C17_Witness ==
    /\ ScenarioLoaded
    /\ search = Str_fi
    /\ lastEvent = "<enter>"
    /\ before.focus = 2
    /\ spawned = Some([program |-> Str_nautilus, args |-> <<>>])

\* C18: in every state of the session a saved cursor implies cursor 0, and
\* every Move-next, Move-previous and Text-changed clears the saved cursor.
C18_SavedCursorOnlyAtQueryField ==
    [][/\ (status' = "running" /\ IsSome(prev_focus')) => focus' = 0
       /\ lastEvent' \in {"j", "k", "text"} => prev_focus' = None]_vars

\* the cursor 3 is saved and the query field has the focus
C18_Witness ==
    /\ status = "running"
    /\ prev_focus = Some(3)
    /\ focus = 0

\* C19: Confirm and presentation compute the same list from catalog and
\* query; the candidate Confirm finds is the one on the highlighted row,
\* and Confirm finds none exactly when no row is highlighted.
C19_ConfirmMatchesHighlight ==
    status = "running" =>
        LET rows == view_highlighted(applications, search, focus)
            found == find_focus(EnterView, focus)
        IN  /\ EnterView = ShownView
            /\ rows = {} <=> found = None
            /\ \A i \in rows :
                   /\ rows = {i}
                   /\ found = Some(<<i, ShownView[i + 1]>>)
            /\ (lastEvent = "<enter>" /\ rows # {})
                   => \A i \in rows : launched = Some(ShownView[i + 1].exec)

\* the second row of a ranked view that differs from the catalog is
\* highlighted and was launched
C19_Witness ==
    /\ status = "running"
    /\ search # Empty
    /\ ShownView # applications
    /\ view_highlighted(applications, search, focus) = {1}
    /\ lastEvent = "<enter>"
    /\ launched = Some(ShownView[2].exec)

\* C20: the second of two Enter-browse events in a row overwrites the saved
\* cursor with 0 and leaves the cursor at 0, so that a Move-next after it
\* gives cursor 1 and no saved cursor.
C20_SecondBrowseOverwrites ==
    [][/\ (lastEvent \in {"i", "/"} /\ lastEvent' \in {"i", "/"})
            => (prev_focus' = Some(0) /\ focus' = 0)
       /\ (lastEvent \in {"i", "/"} /\ before.focus = 0
             /\ IsSome(before.prev_focus) /\ lastEvent' = "j")
            => (focus' = 1 /\ prev_focus' = None)]_vars

\* a second Enter-browse replaced the saved cursor 3 by 0
C20_Witness ==
    /\ lastEvent \in {"i", "/"}
    /\ before.focus = 0
    /\ before.prev_focus = Some(3)
    /\ prev_focus = Some(0)
    /\ focus = 0

====
